---- MODULE Spec2Model ----
(***************************************************************************)
(* The Pagination cursor of src/src/common.rs (struct Pagination, its      *)
(* Stream::poll_next and its total() accessor), driven by one consumer     *)
(* and by a caller-supplied page-fetch callback.                           *)
(*                                                                         *)
(* The callback and the future it returns are the environment.  Every      *)
(* poll of the future may return Pending, Ready(Err) or Ready(Ok(page,     *)
(* total)).  The pages the callback has delivered so far are recorded in   *)
(* `pages` (their lengths); the items of the k-th delivered page are the   *)
(* consecutive naturals that follow the items of the pages before it, so   *)
(* the concatenation of the delivered pages is 1 .. Delivered.             *)
(*                                                                         *)
(* The decoders of src/src/media (MediaCollection, from_id, the bulk       *)
(* envelopes, deserialize_streams) are pure functions of a decoded JSON    *)
(* value.  DecodeSpec draws their inputs from bounded sets and applies     *)
(* them; Spec runs the cursor and leaves the decoder variables alone.      *)
(***************************************************************************)
EXTENDS Integers, Sequences, FiniteSets, TLC

\* Bounds of the model.
MaxPage == 3          \* a page holds 0 .. MaxPage items
MaxFetch == 3         \* the callback delivers at most MaxFetch pages
MaxTotal == 5         \* the declared total is in 0 .. MaxTotal
MaxPending == 2       \* consecutive Pending polls of one future
MaxTotalCalls == 2    \* calls of total()
MaxItems == 3         \* items of a bulk envelope
MaxLeaves == 4        \* payloads of a raw stream table
MillisBits == 4       \* bits of the integer types of a milliseconds field

VARIABLES
    \* struct Pagination
    data,          \* Vec<T>: the page stored by the last successful fetch, minus what was removed
    init,          \* bool
    next_state,    \* Option<future>: <<>> is None, <<s>> is Some(future in state s)
    fn_executor,   \* Arc<Executor>
    fn_query,      \* Vec<(String, String)>
    count,         \* u32
    total,         \* u32
    \* the fetch callback (environment)
    declared,      \* the total the callback declares with every page
    pages,         \* lengths of the pages delivered so far, in order
    \* the consumer
    op,            \* "idle", or the future it holds pending: "next" (StreamExt::next) or "total"
    \* history
    fetchArgs,     \* arguments of every invocation of next_fn, in order
    yielded,       \* items returned to the consumer by next(), in order
    ret,           \* what the poll_next call of the last step returned
    total_ret,     \* <<v>> when the last step completed total() with v, else <<>>
    pendings,      \* consecutive Pending results of the future held
    pulled,        \* the consumer has polled next() at least once
    failed,        \* a fetch future has resolved to an error
    totalCalls,    \* calls of total() started
    \* the decoders
    task,          \* the decoder under way, "none" while the cursor runs
    json,          \* its input
    result,        \* what it returned
    todo,          \* deserialize_streams: the payloads of as_map not yet visited
    cur,           \* deserialize_streams: the format whose inner loop runs
    raw            \* deserialize_streams: the regrouped table built so far

cursor == <<data, init, next_state, fn_executor, fn_query, count, total>>
decoder == <<task, json, result, todo, cur, raw>>
pagination == <<data, init, next_state, fn_executor, fn_query, count, total,
                declared, pages, op, fetchArgs, yielded, ret, total_ret,
                pendings, pulled, failed, totalCalls>>
vars == <<data, init, next_state, fn_executor, fn_query, count, total,
          declared, pages, op, fetchArgs, yielded, ret, total_ret,
          pendings, pulled, failed, totalCalls,
          task, json, result, todo, cur, raw>>

None == <<>>
Some(f) == <<f>>

Executor == "executor"
QueryArgs == <<"query">>

Result(k, i) == [kind |-> k, item |-> i]
NotPolled == Result("NotPolled", 0)

RECURSIVE SumSeq(_)
SumSeq(s) == IF s = <<>> THEN 0 ELSE Head(s) + SumSeq(Tail(s))

\* Number of items in the pages delivered so far.
Delivered == SumSeq(pages)

\* The page of len items the callback delivers next.
NextPage(len) == [i \in 1..len |-> Delivered + i]

Range(a, b) == [i \in 1..(b - a + 1) |-> a + i - 1]

IsPrefix(s, t) == Len(s) <= Len(t) /\ s = SubSeq(t, 1, Len(s))

\* Pagination::new
PaginationNew ==
    /\ data = <<>>
    /\ init = FALSE
    /\ next_state = None
    /\ fn_executor = Executor
    /\ fn_query = QueryArgs
    /\ count = 0
    /\ total = 0
    /\ declared \in 0..MaxTotal
    /\ pages = <<>>
    /\ op = "idle"
    /\ fetchArgs = <<>>
    /\ yielded = <<>>
    /\ ret = NotPolled
    /\ total_ret = <<>>
    /\ pendings = 0
    /\ pulled = FALSE
    /\ failed = FALSE
    /\ totalCalls = 0

\* poll_next, line 59: the branch that fetches.
ShouldFetch == count < total \/ ~init

\* Invokes without the test of next_state.
Invokes_Always == TRUE

\* poll_next, lines 62-69: next_fn is invoked only when no future is held.
Invokes == next_state = None

\* FetchArgsAfter with the last known total passed in place of count.
FetchArgsAfter_PassesTotal ==
    IF Invokes
    THEN Append(fetchArgs, [count |-> total, executor |-> fn_executor, query |-> fn_query])
    ELSE fetchArgs

FetchArgsAfter ==
    IF Invokes
    THEN Append(fetchArgs, [count |-> count, executor |-> fn_executor, query |-> fn_query])
    ELSE fetchArgs

\* The future polled at line 72.
Held == IF Invokes THEN Some("running") ELSE next_state

\* PollEnd rewinding the cursor when it reports the end.
PollEnd_Rewinds ==
    /\ ~ShouldFetch
    /\ ret' = Result("End", 0)
    /\ init' = FALSE
    /\ count' = 0
    /\ UNCHANGED <<data, next_state, fn_executor, fn_query, total, declared, pages,
                   fetchArgs, pendings, failed>>

\* poll_next, line 88: nothing to fetch.
PollEnd ==
    /\ ~ShouldFetch
    /\ ret' = Result("End", 0)
    /\ UNCHANGED <<cursor, declared, pages, fetchArgs, pendings, failed>>

\* PollPending with the future dropped instead of kept in next_state.
PollPending_DropsFuture ==
    /\ ShouldFetch
    /\ pendings < MaxPending
    /\ fetchArgs' = FetchArgsAfter
    /\ next_state' = None
    /\ pendings' = pendings + 1
    /\ ret' = Result("Pending", 0)
    /\ UNCHANGED <<data, init, fn_executor, fn_query, count, total, declared, pages, failed>>

\* poll_next, line 81: the future is not ready; it stays in next_state.
PollPending ==
    /\ ShouldFetch
    /\ pendings < MaxPending
    /\ fetchArgs' = FetchArgsAfter
    /\ next_state' = Held
    /\ pendings' = pendings + 1
    /\ ret' = Result("Pending", 0)
    /\ UNCHANGED <<data, init, fn_executor, fn_query, count, total, declared, pages, failed>>

\* PollErr falling through to lines 84-85 before it returns the error.
PollErr_FallsThrough ==
    /\ ShouldFetch
    /\ fetchArgs' = FetchArgsAfter
    /\ next_state' = Some("finished")
    /\ pendings' = 0
    /\ ret' = Result("Err", 0)
    /\ failed' = TRUE
    /\ init' = TRUE
    /\ count' = count + 1
    /\ UNCHANGED <<data, fn_executor, fn_query, total, declared, pages>>

\* poll_next, line 79: the future resolves to an error; the finished future
\* stays in next_state.
PollErr ==
    /\ ShouldFetch
    /\ fetchArgs' = FetchArgsAfter
    /\ next_state' = Some("finished")
    /\ pendings' = 0
    /\ ret' = Result("Err", 0)
    /\ failed' = TRUE
    /\ UNCHANGED <<data, init, fn_executor, fn_query, count, total, declared, pages>>

\* PollOk with count advanced by the size of the page.
PollOk_CountsPage ==
    /\ ShouldFetch
    /\ Len(pages) < MaxFetch
    /\ \E len \in 1..MaxPage :
        LET t == NextPage(len) IN
        /\ pages' = Append(pages, len)
        /\ data' = Tail(t)
        /\ ret' = Result("Item", Head(t))
        /\ count' = count + len
    /\ total' = declared
    /\ next_state' = None
    /\ init' = TRUE
    /\ fetchArgs' = FetchArgsAfter
    /\ pendings' = 0
    /\ UNCHANGED <<fn_executor, fn_query, declared, failed>>

\* poll_next, lines 74-78 and 84-86: the future resolves to a page t with at
\* least one item; data = t, then data.remove(0) is returned.
PollOk ==
    /\ ShouldFetch
    /\ Len(pages) < MaxFetch
    /\ \E len \in 1..MaxPage :
        LET t == NextPage(len) IN
        /\ pages' = Append(pages, len)
        /\ data' = Tail(t)
        /\ ret' = Result("Item", Head(t))
    /\ total' = declared
    /\ next_state' = None
    /\ init' = TRUE
    /\ count' = count + 1
    /\ fetchArgs' = FetchArgsAfter
    /\ pendings' = 0
    /\ UNCHANGED <<fn_executor, fn_query, declared, failed>>

\* poll_next, lines 74-78 and 84-86 with an empty page: init and count are
\* updated, then data.remove(0) panics (Vec::remove on an empty Vec).
PollOkEmpty ==
    /\ ShouldFetch
    /\ Len(pages) < MaxFetch
    /\ pages' = Append(pages, 0)
    /\ data' = <<>>
    /\ total' = declared
    /\ next_state' = None
    /\ init' = TRUE
    /\ count' = count + 1
    /\ fetchArgs' = FetchArgsAfter
    /\ pendings' = 0
    /\ ret' = Result("Panic", 0)
    /\ UNCHANGED <<fn_executor, fn_query, declared, failed>>

\* poll_next, line 72 on a future that has already returned Ready (left in
\* next_state by line 79): the Future contract leaves the outcome open.  It
\* may return Pending, Err or Ok again (PollPending, PollErr, PollOk,
\* PollOkEmpty), or panic, as every async block does.
PollFinished ==
    /\ ShouldFetch
    /\ next_state = Some("finished")
    /\ ret' = Result("Panic", 0)
    /\ UNCHANGED <<cursor, declared, pages, fetchArgs, pendings, failed>>

\* Stream::poll_next, lines 58-90.
poll_next ==
    \/ PollEnd
    \/ PollPending
    \/ PollErr
    \/ PollOk
    \/ PollOkEmpty
    \/ PollFinished

\* A panic unwinds through the consumer: nothing runs afterwards.
Alive == ret.kind # "Panic"

\* The consumer polls StreamExt::next(&mut cursor): one call of poll_next.
Pull ==
    /\ Alive
    /\ op \in {"idle", "next"}
    /\ poll_next
    /\ op' = IF ret'.kind = "Pending" THEN "next" ELSE "idle"
    /\ yielded' = IF ret'.kind = "Item" THEN Append(yielded, ret'.item) ELSE yielded
    /\ pulled' = TRUE
    /\ total_ret' = <<>>
    /\ UNCHANGED <<totalCalls, decoder>>

\* TotalNeedsPull without the test of init.
TotalNeedsPull_Always == TRUE

\* total(), line 125.
TotalNeedsPull == ~init

\* total() on an initialized cursor, lines 125 and 128: no poll.
TotalCached ==
    /\ Alive
    /\ op = "idle"
    /\ totalCalls < MaxTotalCalls
    /\ ~TotalNeedsPull
    /\ total_ret' = <<total>>
    /\ totalCalls' = totalCalls + 1
    /\ ret' = NotPolled
    /\ UNCHANGED <<cursor, declared, pages, op, fetchArgs, yielded, pendings, pulled, failed, decoder>>

\* One poll of total() while it awaits StreamExt::next(self), lines 125-128:
\* the result of next() is dropped, then self.total is returned.
TotalPoll ==
    /\ Alive
    /\ \/ op = "idle" /\ totalCalls < MaxTotalCalls /\ TotalNeedsPull
       \/ op = "total"
    /\ poll_next
    /\ op' = IF ret'.kind = "Pending" THEN "total" ELSE "idle"
    /\ total_ret' = IF ret'.kind \in {"Pending", "Panic"} THEN <<>> ELSE <<total'>>
    /\ totalCalls' = IF op = "idle" THEN totalCalls + 1 ELSE totalCalls
    /\ UNCHANGED <<yielded, pulled, decoder>>

\* The consumer drops a pending next() or total() future: the cursor is not
\* touched.
Cancel ==
    /\ Alive
    /\ op \in {"next", "total"}
    /\ op' = "idle"
    /\ ret' = NotPolled
    /\ total_ret' = <<>>
    /\ UNCHANGED <<cursor, declared, pages, fetchArgs, yielded, pendings, pulled, failed, totalCalls, decoder>>

Next == Pull \/ TotalCached \/ TotalPoll \/ Cancel

\* What a decoder returns: Ok(value) or Err(kind of CrunchyrollError, message).
DOk(v) == [ok |-> TRUE, value |-> v]
DErr(k, m) == [ok |-> FALSE, kind |-> k, msg |-> m]
Undecoded == DErr("none", "")

\* No decoder runs.
DecoderOff ==
    /\ task = "none"
    /\ json = <<>>
    /\ result = Undecoded
    /\ todo = {}
    /\ cur = ""
    /\ raw = <<>>

\* A cursor as constructed; nothing is being decoded.
Init == PaginationNew /\ DecoderOff

Spec == Init /\ [][Next]_vars

TypeOK ==
    /\ init \in BOOLEAN
    /\ next_state \in {None, Some("running"), Some("finished")}
    /\ count \in 0..(MaxFetch + 1)
    /\ total \in 0..MaxTotal
    /\ op \in {"idle", "next", "total"}
    /\ Len(pages) <= MaxFetch
    /\ fn_executor = Executor /\ fn_query = QueryArgs

(***************************************************************************)
(* MediaCollection and Media<M>, src/src/media/media.rs.                    *)
(*                                                                         *)
(* A JSON value is a scalar or an object.  Of an object the model keeps    *)
(* the keys that name the metadata field (keys), those of them whose value *)
(* does not decode as a metadata payload (bad), and whether the other      *)
(* fields of the envelope decode (envelope).                               *)
(***************************************************************************)

\* The five marker keys, in the order lines 286-302 test them, and the
\* variant each selects.
Markers ==
    <<"series_metadata", "season_metadata", "episode_metadata",
      "movie_listing_metadata", "movie_metadata">>
Variants == <<"Series", "Season", "Episode", "MovieListing", "Movie">>
MarkerKeys == {Markers[i] : i \in 1..Len(Markers)}

\* Media::metadata, lines 428-433: the field name and its five aliases.
MetadataNames == {"metadata"} \cup MarkerKeys

JsonObjects ==
    {[kind |-> "object", keys |-> k, bad |-> b, envelope |-> e] :
        k \in SUBSET MetadataNames, b \in SUBSET MetadataNames, e \in BOOLEAN}
JsonValues ==
    {[kind |-> "scalar", keys |-> {}, bad |-> {}, envelope |-> FALSE]} \cup
    {o \in JsonObjects : o.bad \subseteq o.keys}

\* Media<M>::deserialize without the duplicate-field test: the key met last
\* sets the field.
MediaDeserialize_LastWins(M, obj) ==
    IF ~obj.envelope \/ obj.keys \cap obj.bad # {}
    THEN DErr("Decode", "invalid envelope")
    ELSE DOk([variant |-> M, metadata |-> obj.keys \cap MetadataNames])

\* Media<M>::deserialize, the derived Deserialize of lines 402-451 (default
\* build: serde(default), unknown fields ignored).  The names of lines
\* 428-433 all set the one field metadata: a second one is a duplicate
\* field.  value.metadata is the key the payload was read from (none: the
\* default payload).
MediaDeserialize(M, obj) ==
    IF ~obj.envelope \/ obj.keys \cap obj.bad # {}
    THEN DErr("Decode", "invalid envelope")
    ELSE IF Cardinality(obj.keys \cap MetadataNames) >= 2
    THEN DErr("Decode", "duplicate field metadata")
    ELSE DOk([variant |-> M, metadata |-> obj.keys \cap MetadataNames])

\* The else-if chain of lines 286-310, from the i-th marker on.
RECURSIVE MarkerChain(_, _)
MarkerChain(i, obj) ==
    IF i > Len(Markers)
    THEN DErr("Decode", "no metadata were found")
    ELSE IF Markers[i] \in obj.keys
    THEN MediaDeserialize(Variants[i], obj)
    ELSE MarkerChain(i + 1, obj)

\* The chain with the arms of season_metadata and series_metadata swapped.
MediaCollectionDeserialize_Swapped(v) ==
    IF v.kind # "object"
    THEN DErr("Decode", "invalid type")
    ELSE IF "season_metadata" \in v.keys
    THEN MediaDeserialize("Series", v)
    ELSE IF "series_metadata" \in v.keys
    THEN MediaDeserialize("Season", v)
    ELSE MarkerChain(3, v)

\* impl Deserialize for MediaCollection, lines 277-312.
MediaCollectionDeserialize(v) ==
    IF v.kind # "object"
    THEN DErr("Decode", "invalid type")
    ELSE MarkerChain(1, v)

\* A response of the objects endpoint: the request failed, or a bulk
\* envelope of 0 .. MaxItems decoded items.
Responses ==
    {[kind |-> "response", ok |-> FALSE, items |-> <<>>]} \cup
    {[kind |-> "response", ok |-> TRUE, items |-> [i \in 1..n |-> [id |-> i]]] :
        n \in 0..MaxItems}

\* MediaCollection::from_id, lines 315-340.
MediaCollectionFromId(resp) ==
    IF ~resp.ok
    THEN DErr("Request", "request failed")
    ELSE IF resp.items = <<>>
    THEN DErr("Input", "no media could be found for id")
    ELSE IF Len(resp.items) >= 2
    THEN DErr("Internal", "multiple media were found for id")
    ELSE DOk(Head(resp.items))

\* Media::from_id taking the first item whenever there is one.
MediaFromId_TakesFirst(resp) ==
    IF ~resp.ok
    THEN DErr("Request", "request failed")
    ELSE IF resp.items = <<>>
    THEN DErr("Input", "no media could be found for id")
    ELSE DOk(Head(resp.items))

\* Media::from_id, lines 454-479.
MediaFromId(resp) ==
    IF ~resp.ok
    THEN DErr("Request", "request failed")
    ELSE IF resp.items = <<>>
    THEN DErr("Input", "no media could be found for id")
    ELSE IF Len(resp.items) >= 2
    THEN DErr("Internal", "multiple media were found for id")
    ELSE DOk(Head(resp.items))

(***************************************************************************)
(* Bulk envelopes and context injection, src/src/common.rs.  The derive    *)
(* of Request (#[request(executor(items))]) is not part of the sources at  *)
(* hand: what it generates is taken from the specification (4.2, 4.5).     *)
(***************************************************************************)

Contexts == {"ctxA", "ctxB"}

\* An envelope as serde decodes it: every item holds the default executor.
Envelopes ==
    {[kind |-> "envelope", shape |-> sh, ctx |-> c,
      items |-> [i \in 1..n |-> [id |-> i, executor |-> "default"]]] :
        sh \in {"BulkResult", "V2BulkResult"}, c \in Contexts, n \in 0..MaxItems}

\* Request::__set_executor of an item that keeps a context.
SetExecutor(item, ctx) == [item EXCEPT !.executor = ctx]

\* The injection leaving out the last item.
BulkSetExecutor_SkipsLast(items, ctx) ==
    [i \in DOMAIN items |-> IF i = Len(items) THEN items[i] ELSE SetExecutor(items[i], ctx)]

\* Request::__set_executor of BulkResult (items) and V2BulkResult (data).
BulkSetExecutor(items, ctx) ==
    [i \in DOMAIN items |-> SetExecutor(items[i], ctx)]

(***************************************************************************)
(* deserialize_streams, src/src/media/stream.rs.                           *)
(*                                                                         *)
(* A raw table is a set of cells <<format, locale>>, each holding a        *)
(* payload; the payload of a cell is named by the cell itself, and `bad`   *)
(* are the cells whose payload does not decode as T::Variant.              *)
(***************************************************************************)

\* Two of the slots of VideoVariants (lines 200-213), and a format name
\* that is no slot of it.
Slots == {"adaptive_hls", "download_hls"}
Formats == Slots \cup {"urls"}
Locales == {":", "", "en-US"}
Cells == Formats \X Locales

RawTables ==
    {[kind |-> "scalar", cells |-> {}, bad |-> {}]} \cup
    {[kind |-> "table", cells |-> c, bad |-> b] :
        c \in {x \in SUBSET Cells : Cardinality(x) <= MaxLeaves}, b \in SUBSET Cells}
StreamInputs == {t \in RawTables : t.bad \subseteq t.cells}

\* Lines 24-26.
FixLocale(locale) == IF locale = ":" THEN "" ELSE locale

\* Every payload accepted.
VariantDeserializeFails_Never(cell) == FALSE

\* Line 30: T::Variant::deserialize(&data) is an error.
VariantDeserializeFails(cell) == cell \in json.bad

\* Lines 34-38: raw[locale][key] = data, replacing what was there.
RawInsert(r, locale, key, payload) == (<<locale, key>> :> payload) @@ r

\* Lines 42-43: the regrouped table decoded as HashMap<Locale, T>; a key
\* that is no slot of T is ignored, a slot without a key is None.
FromValue(r) ==
    [locale \in {x[1] : x \in DOMAIN r} |->
        [slot \in Slots |->
            IF <<locale, slot>> \in DOMAIN r THEN Some(r[<<locale, slot>>]) ELSE None]]

(***************************************************************************)
(* The decoders applied to bounded inputs.                                 *)
(***************************************************************************)

\* internal/serde.rs: a field of milliseconds.  The integers are those of
\* the source with MillisBits bits in place of 64.
U64Max == 2^MillisBits - 1
I64Max == 2^(MillisBits - 1) - 1
I64Min == 0 - 2^(MillisBits - 1)

\* The JSON values given to millis_to_duration: integers, two of them beyond
\* the 64-bit types, a number with a fraction and a string.
MillisInputs ==
    {[kind |-> "integer", n |-> n] : n \in (I64Min - 1)..(U64Max + 1)} \cup
    {[kind |-> "float", n |-> 0], [kind |-> "string", n |-> 0]}

\* v as i64, line 20: the bits of the u64 read as two's complement.
AsI64(v) == IF v > I64Max THEN v - 2^MillisBits ELSE v

\* chrono::Duration::milliseconds: the duration of v milliseconds.  For
\* i64::MIN it depends on the chrono release of the build: the older ones
\* return the duration, the newer ones panic (out of bounds).
Milliseconds(v) ==
    {DOk(v)} \cup
    (IF v = I64Min THEN {DErr("Panic", "Duration::milliseconds out of bounds")} ELSE {})

\* Lines 15-17.
visit_i64(v) == Milliseconds(v)

\* Lines 19-21.
visit_u64(v) == Milliseconds(AsI64(v))

\* Deserializer::deserialize_i64 of serde_json, line 27: an integer that is
\* not negative goes to visit_u64, a negative one to visit_i64; an integer
\* beyond both types is read as f64 and goes, as a fraction does, to
\* visit_f64, which the visitor leaves at its default, an error; so does
\* every value that is no number.
deserialize_i64(j) ==
    CASE j.kind = "integer" /\ j.n >= 0 /\ j.n <= U64Max -> visit_u64(j.n)
      [] j.kind = "integer" /\ j.n < 0 /\ j.n >= I64Min -> visit_i64(j.n)
      [] OTHER -> {DErr("Decode", "invalid type")}

\* Lines 24-28.
millis_to_duration(j) == deserialize_i64(j)

Tasks == {"collection", "collection_from_id", "media_from_id", "bulk", "streams", "millis"}

Inputs(t) ==
    CASE t = "collection" -> JsonValues
      [] t \in {"collection_from_id", "media_from_id"} -> Responses
      [] t = "bulk" -> Envelopes
      [] t = "streams" -> StreamInputs
      [] t = "millis" -> MillisInputs

DecodeInit ==
    /\ PaginationNew
    /\ declared = 0
    /\ task \in Tasks
    /\ json \in Inputs(task)
    /\ result = Undecoded
    /\ todo = IF task = "streams" THEN json.cells ELSE {}
    /\ cur = ""
    /\ raw = <<>>

\* serde_json::from_value::<MediaCollection>.
DecodeCollection ==
    /\ task = "collection" /\ result = Undecoded
    /\ result' = MediaCollectionDeserialize(json)
    /\ UNCHANGED <<pagination, task, json, todo, cur, raw>>

CallCollectionFromId ==
    /\ task = "collection_from_id" /\ result = Undecoded
    /\ result' = MediaCollectionFromId(json)
    /\ UNCHANGED <<pagination, task, json, todo, cur, raw>>

CallMediaFromId ==
    /\ task = "media_from_id" /\ result = Undecoded
    /\ result' = MediaFromId(json)
    /\ UNCHANGED <<pagination, task, json, todo, cur, raw>>

\* Executor::request of a bulk envelope: decode, then inject the context.
DecodeBulk ==
    /\ task = "bulk" /\ result = Undecoded
    /\ result' = DOk([shape |-> json.shape, items |-> BulkSetExecutor(json.items, json.ctx)])
    /\ UNCHANGED <<pagination, task, json, todo, cur, raw>>

\* deserialize_streams, line 19: the value is no map of maps.
StreamsReject ==
    /\ task = "streams" /\ result = Undecoded
    /\ json.kind # "table"
    /\ result' = DErr("Decode", "invalid type")
    /\ UNCHANGED <<pagination, task, json, todo, cur, raw>>

\* The payloads the loops of lines 22-23 may visit next: HashMap iterates in
\* no fixed order, format by format.
Visitable ==
    IF \E c \in todo : c[1] = cur THEN {c \in todo : c[1] = cur} ELSE todo

\* deserialize_streams, lines 23-38: one payload that decodes.
StreamsVisit ==
    /\ task = "streams" /\ result = Undecoded
    /\ json.kind = "table"
    /\ \E cell \in Visitable :
        /\ ~VariantDeserializeFails(cell)
        /\ raw' = RawInsert(raw, FixLocale(cell[2]), cell[1], cell)
        /\ todo' = todo \ {cell}
        /\ cur' = cell[1]
    /\ UNCHANGED <<pagination, task, json, result>>

\* deserialize_streams, lines 23-32: one payload that does not decode.
StreamsAbort ==
    /\ task = "streams" /\ result = Undecoded
    /\ json.kind = "table"
    /\ \E cell \in Visitable :
        /\ VariantDeserializeFails(cell)
        /\ result' = DErr("Decode", "invalid variant")
        /\ cur' = cell[1]
    /\ UNCHANGED <<pagination, task, json, todo, raw>>

\* deserialize_streams, lines 42-43.
StreamsFinish ==
    /\ task = "streams" /\ result = Undecoded
    /\ json.kind = "table"
    /\ todo = {}
    /\ result' = DOk(FromValue(raw))
    /\ UNCHANGED <<pagination, task, json, todo, cur, raw>>

\* A field of milliseconds is decoded with millis_to_duration.
DecodeMillis ==
    /\ task = "millis" /\ result = Undecoded
    /\ result' \in millis_to_duration(json)
    /\ UNCHANGED <<pagination, task, json, todo, cur, raw>>

DecodeNext ==
    \/ DecodeCollection
    \/ CallCollectionFromId
    \/ CallMediaFromId
    \/ DecodeBulk
    \/ StreamsReject
    \/ StreamsVisit
    \/ StreamsAbort
    \/ StreamsFinish
    \/ DecodeMillis

DecodeSpec == DecodeInit /\ [][DecodeNext]_vars

(***************************************************************************)
(* Claims.                                                                 *)
(***************************************************************************)

\* The callback delivers a sequence of `declared` items split across
\* non-empty pages, and has only empty pages left once all are delivered.
SplitsTotal ==
    \A k \in 1..Len(pages) :
        IF SumSeq(SubSeq(pages, 1, k - 1)) < declared
        THEN pages[k] >= 1 /\ SumSeq(SubSeq(pages, 1, k)) <= declared
        ELSE pages[k] = 0

\* The consumer only pulls (no total() call) and no fetch has failed.
OnlyPulls == totalCalls = 0 /\ ~failed

\* C1: when the fetch function declares total = N and delivers N items split
\* across pages, pulling never fails, never yields more than N items, and
\* once a pull reports end-of-sequence exactly N items have been yielded
\* and consumed_count = N.
C1_PullsYieldTotal ==
    (SplitsTotal /\ OnlyPulls) =>
        /\ ret.kind # "Panic"
        /\ Len(yielded) <= declared
        /\ (ret.kind = "End" => Len(yielded) = declared /\ count = declared)

\* C2: a step invokes the fetch callback only when the buffer is empty and
\* the cursor is uninitialized or consumed_count < total; and for the fetch
\* sequence [(3 items, total 5), (2 items, total 5)] the items yielded are
\* always a prefix of the five items, fetched with at most two invocations,
\* all five of them with consumed_count = 5 at end-of-sequence.
C2_FetchOnlyWhenBufferEmpty ==
    /\ [][fetchArgs' # fetchArgs => data = <<>> /\ (~init \/ count < total)]_vars
    /\ []((OnlyPulls /\ declared = 5 /\ IsPrefix(pages, <<3, 2>>)) =>
            /\ IsPrefix(yielded, Range(1, 5))
            /\ Len(fetchArgs) <= 2
            /\ (ret.kind = "End" => yielded = Range(1, 5) /\ count = 5 /\ total = 5))

\* C3: the items yielded so far followed by the items still buffered are the
\* concatenation, in fetch order, of the pages fetched so far: nothing is
\* skipped, duplicated or re-ordered.
C3_OrderPreserved ==
    (totalCalls = 0 /\ ret.kind # "Panic") => yielded \o data = Range(1, Delivered)

\* C4: with no pull before or in between, calls of total() invoke the fetch
\* callback exactly once in all (the first call does, later calls do not),
\* and a call that returns, returns the total the cursor holds.
C4_TotalFetchesOnce ==
    /\ (~pulled /\ totalCalls >= 1) => Len(fetchArgs) = 1
    /\ total_ret # <<>> => total_ret = <<total>>

\* C4 witness: a second total() call has returned the total learned by the
\* first, after one fetch invocation in all.
C4_Witness ==
    /\ ~pulled /\ totalCalls = 2 /\ init
    /\ declared >= 2 /\ total_ret = <<declared>>
    /\ Len(fetchArgs) = 1

\* C5: once total() has returned on a cursor that was never pulled,
\* consumed_count is still 0, and the first item ever yielded is the first
\* item of the first page.
C5_TotalConsumesNothing ==
    /\ (~pulled /\ total_ret # <<>>) => count = 0
    /\ yielded # <<>> => yielded[1] = 1

\* C6: when the first fetch returns total = 0, with any page, no pull fails,
\* no item is ever yielded and no further fetch is invoked.
C6_ZeroTotalYieldsNothing ==
    (declared = 0 /\ pages # <<>> /\ ~failed) =>
        /\ ret.kind # "Panic"
        /\ yielded = <<>>
        /\ Len(fetchArgs) = 1

\* C7: a call of poll_next returns end-of-sequence exactly when the cursor is
\* initialized, its buffer is empty and consumed_count >= total.
C7_EndIffDrained ==
    [][ret'.kind # "NotPolled" =>
        (ret'.kind = "End" <=> (init /\ data = <<>> /\ count >= total))]_vars

\* C8: a poll_next that returns a fetch error leaves buffer, consumed_count,
\* total and the initialized flag as they were, yields nothing, and has
\* invoked the fetch callback at most once.
C8_ErrorLeavesCursor ==
    [][ret'.kind = "Err" =>
        /\ data' = data /\ count' = count /\ total' = total /\ init' = init
        /\ yielded' = yielded
        /\ Len(fetchArgs') <= Len(fetchArgs) + 1]_vars

\* C8 witness: a fetch error observed by a pull while items of an earlier
\* page are buffered.
C8_Witness ==
    /\ ret.kind = "Err" /\ pulled
    /\ data # <<>> /\ count >= 1 /\ init
    /\ Len(fetchArgs) = 2

\* C9: the poll_next that follows one that returned a fetch error invokes
\* the fetch callback anew, with the consumed_count of the failed attempt.
C9_RetryAfterError ==
    [][(ret.kind = "Err" /\ ret'.kind # "NotPolled") =>
        /\ Len(fetchArgs') = Len(fetchArgs) + 1
        /\ fetchArgs'[Len(fetchArgs')].count = fetchArgs[Len(fetchArgs)].count]_vars

\* C10: a poll_next that returns Pending leaves buffer, consumed_count, total
\* and the initialized flag as they were and keeps the future; dropping the
\* pending pull leaves the cursor untouched; and no step invokes the fetch
\* callback while an unresolved future is held.
C10_PendingKeepsFuture ==
    [][/\ ret'.kind = "Pending" =>
            /\ data' = data /\ count' = count /\ total' = total /\ init' = init
            /\ next_state' # None
       /\ (op # "idle" /\ ret'.kind = "NotPolled") => cursor' = cursor
       /\ next_state = Some("running") => fetchArgs' = fetchArgs]_vars

\* C10 witness: the second fetch has been polled twice, both times Pending,
\* after being invoked once.
C10_Witness ==
    /\ ret.kind = "Pending" /\ pendings = 2
    /\ next_state = Some("running")
    /\ Len(fetchArgs) = 2 /\ data # <<>>

\* The marker keys of a JSON object.
Present(obj) == obj.keys \cap MarkerKeys

\* The object is a valid envelope: its fields decode and no second name of
\* the metadata field stands beside the marker.
ValidEnvelope(obj) == obj.envelope /\ obj.bad = {} /\ "metadata" \notin obj.keys

\* C11: decoding an object with exactly one marker key never yields another
\* variant than the one of that key, and yields that variant when the object
\* is a valid envelope; decoding an object with no marker key fails with the
\* decode error "no metadata were found".
C11_MarkerSelectsVariant ==
    (task = "collection" /\ result # Undecoded /\ json.kind = "object") =>
        /\ Present(json) = {} => result = DErr("Decode", "no metadata were found")
        /\ \A i \in 1..Len(Markers) :
            Present(json) = {Markers[i]} =>
                /\ result.ok => result.value.variant = Variants[i]
                /\ ValidEnvelope(json) =>
                    result = DOk([variant |-> Variants[i], metadata |-> {Markers[i]}])

\* C11 witness: an object whose only marker is movie_listing_metadata has
\* been decoded to the MovieListing variant.
C11_Witness ==
    /\ task = "collection" /\ json.kind = "object"
    /\ Present(json) = {"movie_listing_metadata"}
    /\ result.ok /\ result.value.variant = "MovieListing"

\* C12: decoding an object that holds two or more marker keys is a decode
\* error, never a variant.
C12_TwoMarkersFail ==
    (task = "collection" /\ result # Undecoded /\ json.kind = "object"
        /\ Cardinality(Present(json)) >= 2) =>
            ~result.ok /\ result.kind = "Decode"

\* C12 witness: an otherwise valid object with the markers of Series and
\* Movie has been refused as a duplicate of the metadata field.
C12_Witness ==
    /\ task = "collection" /\ json.kind = "object"
    /\ json.keys = {"series_metadata", "movie_metadata"}
    /\ json.envelope /\ json.bad = {}
    /\ result = DErr("Decode", "duplicate field metadata")

\* C13: when the request succeeds, from_id (of MediaCollection and of Media)
\* returns an Input error for zero items, an Internal error for two or more
\* items and the item itself for exactly one.
C13_FromIdExactlyOne ==
    (task \in {"collection_from_id", "media_from_id"} /\ result # Undecoded /\ json.ok) =>
        /\ Len(json.items) = 0 => (~result.ok /\ result.kind = "Input")
        /\ Len(json.items) >= 2 => (~result.ok /\ result.kind = "Internal")
        /\ Len(json.items) = 1 => result = DOk(json.items[1])

\* C13 witness: Media::from_id has answered a response of several items with
\* an Internal error.
C13_Witness ==
    /\ task = "media_from_id" /\ json.ok
    /\ Len(json.items) >= 2
    /\ ~result.ok /\ result.kind = "Internal"

\* C14: after a bulk envelope of N items has been decoded and the context
\* injected, it still holds N items and each holds the context of the
\* envelope.
C14_ItemsShareContext ==
    (task = "bulk" /\ result # Undecoded) =>
        /\ result.ok
        /\ Len(result.value.items) = Len(json.items)
        /\ \A i \in 1..Len(json.items) : result.value.items[i].executor = json.ctx

\* C14 witness: a V2BulkResult of at least two items has been injected.
C14_Witness ==
    /\ task = "bulk" /\ json.shape = "V2BulkResult"
    /\ Len(json.items) >= 2
    /\ result.ok /\ result.value.items[2].executor = json.ctx

\* The key a raw locale has in the normalized table.
Rewritten(locale) == IF locale = ":" THEN "" ELSE locale

\* Slot f of the record of locale l holds payload p.
Holds(table, l, f, p) == l \in DOMAIN table /\ f \in Slots /\ table[l][f] = Some(p)

\* deserialize_streams has returned a table.
Normalized == task = "streams" /\ result.ok

\* C15: every payload keyed by ":" under a format of the record is found in
\* that slot of the empty locale of the normalized table, which has no
\* key ":".
C15_SentinelRewritten ==
    Normalized =>
        /\ ":" \notin DOMAIN result.value
        /\ \A cell \in json.cells :
            (cell[2] = ":" /\ cell[1] \in Slots) =>
                Holds(result.value, "", cell[1], cell)

\* C16: when a payload of the raw table does not decode, no table is ever
\* returned: the payload is never passed over, and what is returned is the
\* decode error.
C16_AllOrNothing ==
    (task = "streams" /\ json.kind = "table" /\ json.bad # {}) =>
        /\ ~result.ok
        /\ json.bad \subseteq todo
        /\ result # Undecoded => result = DErr("Decode", "invalid variant")

\* C16 witness: the normalization has failed on a bad payload after valid
\* payloads had been regrouped.
C16_Witness ==
    /\ task = "streams" /\ json.kind = "table"
    /\ result = DErr("Decode", "invalid variant")
    /\ Cardinality(DOMAIN raw) >= 2

\* C17: every payload that a valid raw table holds under a format of the
\* record is found in that slot of the record of its (rewritten) locale,
\* and every slot that is filled holds a payload of the raw table for that
\* format and locale.
C17_RegroupedWithoutLoss ==
    Normalized =>
        /\ \A cell \in json.cells :
            cell[1] \in Slots =>
                Holds(result.value, Rewritten(cell[2]), cell[1], cell)
        /\ \A l \in DOMAIN result.value : \A f \in Slots :
            result.value[l][f] # None =>
                \E cell \in json.cells :
                    /\ cell[1] = f /\ Rewritten(cell[2]) = l
                    /\ result.value[l][f] = Some(cell)

\* C18: next_fn is invoked one call at a time and never while the future of
\* an earlier call is still running; a cursor that holds no future has no
\* fetch in flight.
C18_OneFetchInFlight ==
    [][fetchArgs' # fetchArgs =>
            /\ next_state # Some("running")
            /\ Len(fetchArgs') = Len(fetchArgs) + 1
            /\ ret'.kind = "Pending" => next_state' = Some("running")]_vars

\* C18 witness: the first fetch, invoked once, is still running after two
\* polls.
C18_Witness ==
    /\ next_state = Some("running")
    /\ pendings = 2 /\ Len(fetchArgs) = 1 /\ pages = <<>>

\* C19: count never decreases; a poll that yields an item adds one to it,
\* and a poll that returns Pending, an error or the end leaves it as it is.
C19_CountMonotone ==
    [][/\ count' >= count
       /\ ret'.kind = "Item" => count' = count + 1
       /\ ret'.kind \in {"Pending", "Err", "End"} => count' = count]_vars

\* C19 witness: two items have been yielded from pages of three and two
\* items, and count is two.
C19_Witness ==
    /\ ret.kind = "Item" /\ pages = <<3, 2>>
    /\ Len(yielded) = 2 /\ count = 2

\* C20: the executor and the query of the cursor are those of construction
\* in every state, and every call of next_fn receives count as it is when
\* the call is made, with that executor and that query.
C20_FetchReceivesCursorState ==
    /\ [](fn_executor = Executor /\ fn_query = QueryArgs)
    /\ [][fetchArgs' # fetchArgs =>
            fetchArgs' = Append(fetchArgs,
                [count |-> count, executor |-> Executor, query |-> QueryArgs])]_vars

\* C20 witness: total() then a pull have called next_fn with count 0 and
\* with count 1.
C20_Witness ==
    /\ Len(fetchArgs) = 2 /\ totalCalls >= 1 /\ pulled
    /\ fetchArgs[1].count = 0 /\ fetchArgs[2].count = 1
    /\ fetchArgs[2].executor = Executor /\ fetchArgs[2].query = QueryArgs

\* The cursor has delivered what the last known total announces.
Exhausted == init /\ count >= total

\* C21: a pull reports the end only on an exhausted cursor, and an exhausted
\* cursor stays exhausted: every later poll reports the end, next_fn is not
\* called, and count, total and data stay as they are.
C21_ExhaustionAbsorbing ==
    /\ [](ret.kind = "End" => Exhausted)
    /\ [][Exhausted =>
            /\ Exhausted'
            /\ ret'.kind \in {"End", "NotPolled"}
            /\ fetchArgs' = fetchArgs
            /\ count' = count /\ total' = total /\ data' = data]_vars

\* C21 witness: after two items of a total of two and a call of total(), a
\* pull reports the end.
C21_Witness ==
    /\ ret.kind = "End" /\ Len(yielded) = 2
    /\ count = 2 /\ total = 2 /\ totalCalls >= 1
    /\ Len(fetchArgs) = 2

\* C22: when an integer n is decoded as a field of milliseconds and accepted,
\* the duration is that of n milliseconds.
C22_MillisExact ==
    (task = "millis" /\ result.ok) =>
        json.kind = "integer" /\ result.value = json.n

====
